---- MODULE Spec2Model ----
(***************************************************************************)
(* Model of the arena tournament harness (src/src/lib.rs): Tournament,     *)
(* Game (the arbiter), Engine (descriptor and handshake) and EngineProcess *)
(* (a live child process with its pipes).                                  *)
(*                                                                         *)
(* The chess rules come from the external crate queenfish (Board, Move,    *)
(* Turn), which is not part of the repository.  The model stands a small   *)
(* game in for it: a handful of positions with a side to move, a legal     *)
(* move set, a deterministic make_move and a check test, containing a      *)
(* checkmate of either side, a stalemate of either side and a repetition   *)
(* cycle.  The arbiter only ever uses the library through these four       *)
(* operations.                                                             *)
(***************************************************************************)
EXTENDS Integers, Sequences, FiniteSets, TLC

(* ------------------------------ bounds -------------------------------- *)

\* Largest configured number of rounds that is explored (rounds is an i32).
MaxRounds == 2

\* Cap on the number of moves applied in one game (unbounded in the code).
MaxPlies == 3

\* Longest command history of a session handed to disconnect(), and the
\* largest number of disconnect() calls made on it.
MaxHistory == 2
MaxDisconnects == 3
MaxSent == 3

\* The movetime of TimeControl::TimePerMove used by the repository's test.
MoveTimeMs == 50

\* Display names an engine descriptor may carry (any String in the code; two
\* descriptors may carry the same one, and a name may be empty).
Names == {"", "A", "B"}

\* The pairs (engine1's name, engine2's name) a tournament is built with:
\* one pair for each way the two names and the empty string, which
\* winner() returns for a draw, can coincide.
NamePairs == {<<"A", "B">>, <<"A", "A">>, <<"", "B">>, <<"A", "">>, <<"", "">>}

(* ---------------------- the chess library stand-in -------------------- *)

Opp(t) == IF t = "WHITE" THEN "BLACK" ELSE "WHITE"

\* Move table of the stand-in game: position -> (UCI string -> position).
MoveTable ==
    [ start  |-> [e2e4 |-> "mid_b", f2f3 |-> "weak_b", g1f3 |-> "rep_b"],
      mid_b  |-> [e7e5 |-> "mid_w", a7a6 |-> "stale_w"],
      mid_w  |-> [d1h5 |-> "mate_b", d2d4 |-> "stale_b"],
      weak_b |-> [d8h4 |-> "mate_w"],
      rep_b  |-> [g8f6 |-> "start"],
      raw    |-> [a2a3 |-> "raw"] ]

\* Length of the stand-in game's repetition cycle start -> rep_b -> start.
CycleLen == 2

\* Positions without any legal move.
Terminal == {"mate_b", "mate_w", "stale_b", "stale_w"}

\* Strings an engine may send after `bestmove` that are legal nowhere.
IllegalTokens == {"e2e5", "0000", "(none)"}

\* Board::new(): the standard starting position, white to move.
BoardNew == [pos |-> "start", turn |-> "WHITE"]

\* Board::generate_moves(): the legal moves, as UCI strings.
generate_moves(b) ==
    IF b.pos \in Terminal \/ b.pos = "panic" THEN {} ELSE DOMAIN MoveTable[b.pos]

\* Board::is_king_in_check(side).
is_king_in_check(b, side) ==
    \/ b.pos = "mate_b" /\ side = "BLACK"
    \/ b.pos = "mate_w" /\ side = "WHITE"

\* What Move::from_uci followed by Board::make_move does with a string that
\* is not a legal move is not fixed by the repository: the library either
\* panics or moves whatever the string names.  It is one deterministic
\* function, chosen once (from_uci_mode).
LibModes == {"panic", "apply"}

\* board.make_move(Move::from_uci(s, &board)) as one function of (board, s).
make_move(b, s, mode) ==
    IF s \in generate_moves(b)
    THEN [pos |-> MoveTable[b.pos][s], turn |-> Opp(b.turn)]
    ELSE IF mode = "apply" /\ b.pos # "panic"
         THEN [pos |-> "raw", turn |-> Opp(b.turn)]
         ELSE [pos |-> "panic", turn |-> b.turn]

\* Replaying a move list from the starting position with the library.
RECURSIVE Replay(_, _)
Replay(ms, mode) ==
    IF ms = <<>> THEN BoardNew
    ELSE make_move(Replay(SubSeq(ms, 1, Len(ms) - 1), mode), ms[Len(ms)], mode)

(* ------------------------------ the state ----------------------------- *)

VARIABLES
    tournament,         \* Tournament {rounds, engine1, engine2, time_control}
    from_uci_mode,      \* how the library treats a string that is no legal move
    pc,                 \* position of the single thread of control
    i,                  \* the round index of Tournament::start's for loop
    tournament_result,  \* TournamentResult being accumulated by start()
    game,               \* Game {white, black, moves_list, board, time_control}
    white_process,      \* EngineProcess of the white side in play()
    black_process,      \* EngineProcess of the black side in play()
    handshake,          \* the child process Engine::new talks to
    last_line,          \* what the latest read of a child's stdout returned
    game_result,        \* the GameResult play() returned for the current round
    spawned             \* number of child processes spawned so far

vars == <<tournament, from_uci_mode, pc, i, tournament_result, game,
          white_process, black_process, handshake, last_line, game_result,
          spawned>>

\* Engine {path, name}: the descriptor (engine_options is never filled).
Engine(path, name) == [path |-> path, name |-> name]

NoEngine == Engine("", "")

\* A child with piped stdin/stdout: the commands written to its stdin so
\* far, and whether it still runs ("running"), has closed its stdout
\* ("stdout_closed") or has exited ("exited"); "silent" is a child that
\* runs on but will not write another line.  "none": no child yet.  `id`
\* numbers the children in the order of their spawn and `round` is the
\* round index at the spawn.
NoProcess == [sent |-> <<>>, child |-> "none", id |-> 0, round |-> 0]

\* A command line written to a child; `moves` is used by `position` only,
\* `ms` by `go movetime` only.
Cmd(c) == [cmd |-> c, moves |-> <<>>, ms |-> 0]

\* TimeControl::Infinite and TimeControl::TimePerMove(ms).
Infinite == [kind |-> "Infinite", ms |-> 0]
TimePerMove(ms) == [kind |-> "TimePerMove", ms |-> ms]

NoLine == [kind |-> "none", token |-> "", legal |-> FALSE]

NoGame == [white |-> NoEngine, black |-> NoEngine, moves_list |-> <<>>,
           board |-> BoardNew, time_control |-> Infinite]

NoResult == [white |-> "", black |-> "", moves_list |-> <<>>, result |-> 0]

\* The states a child can be in by the time of the next I/O on it: a child
\* may close its stdout or exit at any moment, and never comes back.
ChildAfter(c) ==
    CASE c = "running"       -> {"running", "stdout_closed", "exited"}
      [] c = "stdout_closed" -> {"stdout_closed", "exited"}
      [] c = "silent"        -> {"silent"}
      [] OTHER               -> {"exited"}

\* EngineProcess::send_command on a child that still reads its stdin.
send_command(p, c) == [p EXCEPT !.sent = Append(@, c)]

\* Engine::spawn_process (and the spawn in Engine::new): a new child,
\* nothing written to it yet.
spawn_process(id, r) ==
    [sent |-> <<>>, child |-> "running", id |-> id, round |-> r]

\* TournamentResult::default().
TournamentResultDefault ==
    [engine1 |-> "", engine2 |-> "", games_list |-> <<>>,
     engine1_won |-> 0, engine2_won |-> 0, draws |-> 0, total_games |-> 0]

\* Game::new(white, black, time_control).
GameNew(white, black, tc) ==
    [white |-> white, black |-> black, moves_list |-> <<>>,
     board |-> BoardNew, time_control |-> tc]

\* GameResult::winner().
winner(gr) ==
    CASE gr.result = 1  -> gr.white
      [] gr.result = -1 -> gr.black
      [] OTHER          -> ""

Configs ==
    {[rounds |-> r, engine1 |-> Engine("path1", np[1]),
      engine2 |-> Engine("path2", np[2]), time_control |-> tc] :
        r \in -1 .. MaxRounds,
        np \in {q \in NamePairs : q[1] \in Names /\ q[2] \in Names},
        tc \in {Infinite, TimePerMove(MoveTimeMs)}}

Init ==
    /\ tournament \in Configs
    /\ from_uci_mode \in LibModes
    /\ pc = "idle"
    /\ i = 0
    /\ tournament_result = TournamentResultDefault
    /\ game = NoGame
    /\ white_process = NoProcess
    /\ black_process = NoProcess
    /\ handshake = NoProcess
    /\ last_line = NoLine
    /\ game_result = NoResult
    /\ spawned = 0

(* -------------------------- Tournament::start ------------------------- *)

\* start(), before the loop: a default result carrying the two names.
Start ==
    /\ pc = "idle"
    /\ tournament_result' =
           [TournamentResultDefault EXCEPT !.engine1 = tournament.engine1.name,
                                           !.engine2 = tournament.engine2.name]
    /\ i' = 0
    /\ pc' = "for"
    /\ UNCHANGED <<tournament, from_uci_mode, game, white_process,
                   black_process, handshake, last_line, game_result, spawned>>

\* `for i in 0..self.rounds` is exhausted: start() returns the result.
ForExit ==
    /\ pc = "for"
    /\ ~(i < tournament.rounds)
    /\ pc' = "done"
    /\ UNCHANGED <<tournament, from_uci_mode, i, tournament_result, game,
                   white_process, black_process, handshake, last_line,
                   game_result, spawned>>

(* ----------------------------- Engine::new ---------------------------- *)

\* Engine::new up to the first read: the path checks, the spawn and the
\* write of `uci`.  A missing file or a failed spawn panics with no child
\* launched; a child that was launched but is gone before `uci` is written
\* makes the write panic.  k = 1: the round's engine1, k = 2: its engine2.
EngineNew(k) ==
    /\ \/ k = 1 /\ pc = "for" /\ i < tournament.rounds
       \/ k = 2 /\ pc = "new2"
    /\ \E out \in {"no_launch", "gone", "ok"} :
          CASE out = "no_launch" ->
                  /\ handshake' = NoProcess
                  /\ UNCHANGED spawned
                  /\ pc' = "panicked"
            [] out = "gone" ->
                  /\ handshake' = [spawn_process(spawned + 1, i) EXCEPT
                                       !.child = "exited"]
                  /\ spawned' = spawned + 1
                  /\ pc' = "panicked"
            [] OTHER ->
                  /\ handshake' = send_command(spawn_process(spawned + 1, i),
                                               Cmd("uci"))
                  /\ spawned' = spawned + 1
                  /\ pc' = IF k = 1 THEN "hs1" ELSE "hs2"
    /\ last_line' = NoLine
    /\ UNCHANGED <<tournament, from_uci_mode, i, tournament_result, game,
                   white_process, black_process, game_result>>

\* One pass of the handshake loop that does not see `uciok`: another line,
\* or nothing at all because the stream has ended (read_line's result is
\* dropped and the line stays empty).  Either way the loop reads again.
HandshakeOther ==
    /\ pc \in {"hs1", "hs2"}
    /\ handshake.child # "silent"
    /\ \E c \in ChildAfter(handshake.child) :
          /\ handshake' = [handshake EXCEPT !.child = c]
          /\ last_line' = [NoLine EXCEPT !.kind =
                              IF c = "running" THEN "other" ELSE "eof"]
    /\ UNCHANGED <<tournament, from_uci_mode, pc, i, tournament_result, game,
                   white_process, black_process, game_result, spawned>>

\* The handshake loop reads a line starting with `uciok`, leaves the loop
\* and writes `quit`; the write panics when the child has exited meanwhile.
HandshakeOk ==
    /\ pc \in {"hs1", "hs2"}
    /\ handshake.child = "running"
    /\ \E c \in ChildAfter(handshake.child) :
          IF c = "exited"
          THEN /\ handshake' = [handshake EXCEPT !.child = c]
               /\ pc' = "panicked"
          ELSE /\ handshake' = send_command([handshake EXCEPT !.child = c],
                                            Cmd("quit"))
               /\ pc' = IF pc = "hs1" THEN "new2" ELSE "game"
    /\ last_line' = [NoLine EXCEPT !.kind = "uciok"]
    /\ UNCHANGED <<tournament, from_uci_mode, i, tournament_result, game,
                   white_process, black_process, game_result, spawned>>

(* ------------------------------ Game::play ---------------------------- *)

\* Variant: the colours are never swapped.
RoundColors_NoSwap(r, e1, e2) == <<e1, e2>>

\* The colours of round r: (white, black), by the parity of r.
RoundColors(r, e1, e2) == IF r % 2 = 0 THEN <<e1, e2>> ELSE <<e2, e1>>

\* Variant: a session left over from the previous game is used again.
RoundSession_Reused(old, id, r) ==
    IF old.child = "none" THEN spawn_process(id, r) ELSE old

\* The session play() binds for a side in round r; `old` is what the
\* previous game, if any, had bound for that side.
RoundSession(old, id, r) == spawn_process(id, r)

\* Game::new for round i, then play() up to the arbiter loop: a new child
\* per side, white first, spawned from the descriptor's path; no command is
\* written.  A spawn that fails panics: the white one with neither session
\* bound, the black one with the white session bound and its child running.
PlaySpawn ==
    /\ pc = "game"
    /\ LET wb == RoundColors(i, tournament.engine1, tournament.engine2)
       IN  game' = GameNew(wb[1], wb[2], tournament.time_control)
    /\ \E out \in {"no_white", "no_black", "ok"} :
          CASE out = "no_white" ->
                  /\ white_process' = NoProcess
                  /\ black_process' = NoProcess
                  /\ UNCHANGED spawned
                  /\ pc' = "panicked"
            [] out = "no_black" ->
                  /\ white_process' = RoundSession(white_process, spawned + 1, i)
                  /\ black_process' = NoProcess
                  /\ spawned' = spawned + 1
                  /\ pc' = "panicked"
            [] OTHER ->
                  /\ white_process' = RoundSession(white_process, spawned + 1, i)
                  /\ black_process' = RoundSession(black_process, spawned + 2, i)
                  /\ spawned' = spawned + 2
                  /\ pc' = "top"
    /\ last_line' = NoLine
    /\ UNCHANGED <<tournament, from_uci_mode, i, tournament_result,
                   handshake, game_result>>

\* Variant: the winner's sign is taken from the side to move itself.
GameOverResult_Swapped(b) ==
    IF is_king_in_check(b, b.turn)
    THEN (IF b.turn = "WHITE" THEN 1 ELSE -1)
    ELSE 0

\* The result of a game whose side to move has no legal move.
GameOverResult(b) ==
    IF is_king_in_check(b, b.turn)
    THEN (IF b.turn = "WHITE" THEN -1 ELSE 1)
    ELSE 0

\* Top of the arbiter loop with valid_moves empty: play() returns.  The two
\* sessions go out of scope without a command being written to them.
GameOver ==
    /\ pc = "top"
    /\ generate_moves(game.board) = {}
    /\ game_result' = [white |-> game.white.name, black |-> game.black.name,
                       moves_list |-> game.moves_list,
                       result |-> GameOverResult(game.board)]
    /\ pc' = "tally"
    /\ UNCHANGED <<tournament, from_uci_mode, i, tournament_result, game,
                   white_process, black_process, handshake, last_line,
                   spawned>>

\* Variant: the latest move is left out of the command.
PositionCommand_Stale(ms) ==
    IF Len(ms) <= 1
    THEN Cmd("position startpos")
    ELSE [Cmd("position startpos moves") EXCEPT
              !.moves = SubSeq(ms, 1, Len(ms) - 1)]

\* The `position` command for the moves pushed so far: `position startpos`
\* for none, `position startpos moves m1 ... mk` otherwise.
PositionCommand(ms) ==
    IF ms = <<>>
    THEN Cmd("position startpos")
    ELSE [Cmd("position startpos moves") EXCEPT !.moves = ms]

\* The `go` command of a time control.
GoCommand(tc) ==
    IF tc.kind = "Infinite"
    THEN Cmd("go infinite")
    ELSE [Cmd("go movetime") EXCEPT !.ms = tc.ms]

\* The session of the side to move.
ToMove == IF game.board.turn = "WHITE" THEN white_process ELSE black_process

\* Variant: the white session is driven whichever side is to move.
SetToMove_AlwaysWhite(p) == white_process' = p /\ UNCHANGED black_process

\* Writes of the arbiter to the session of the side to move: that session
\* becomes p, the other one is left alone.
SetToMove(p) ==
    IF game.board.turn = "WHITE"
    THEN white_process' = p /\ UNCHANGED black_process
    ELSE black_process' = p /\ UNCHANGED white_process

\* How far a game is followed: MaxPlies moves, and in a tournament of a
\* single round one repetition cycle further, far enough for a position to
\* come back a third time and be played on.
PlyCap == IF tournament.rounds = 1 THEN MaxPlies + CycleLen ELSE MaxPlies

\* Top of the arbiter loop with a legal move available: `position` and `go`
\* are written to the session of the side to move.  A write to a child that
\* has exited fails and send_command panics; n is the number of the two
\* writes that succeed.
RequestMove ==
    /\ pc = "top"
    /\ generate_moves(game.board) # {}
    /\ Len(game.moves_list) < PlyCap
    /\ LET cmds == <<PositionCommand(game.moves_list),
                     GoCommand(game.time_control)>>
       IN  \E c \in ChildAfter(ToMove.child), n \in 0 .. 2 :
              /\ (n = 2) <=> (c # "exited")
              /\ SetToMove([ToMove EXCEPT
                               !.sent = @ \o SubSeq(cmds, 1, n),
                               !.child = c])
              /\ pc' = IF n = 2 THEN "await" ELSE "panicked"
    /\ last_line' = NoLine
    /\ UNCHANGED <<tournament, from_uci_mode, i, tournament_result, game,
                   handshake, game_result, spawned>>

\* Variant: the end of the engine's stream ends the game, lost by the side
\* to move.
ReadOther_EofReturns ==
    /\ pc = "await"
    /\ ToMove.child # "silent"
    /\ \E c \in ChildAfter(ToMove.child) :
          /\ SetToMove([ToMove EXCEPT !.child = c])
          /\ last_line' = [NoLine EXCEPT !.kind =
                              IF c = "running" THEN "other" ELSE "eof"]
          /\ pc' = IF c = "running" THEN "await" ELSE "tally"
          /\ game_result' =
                IF c = "running"
                THEN game_result
                ELSE [white |-> game.white.name, black |-> game.black.name,
                      moves_list |-> game.moves_list,
                      result |-> IF game.board.turn = "WHITE" THEN -1 ELSE 1]
    /\ UNCHANGED <<tournament, from_uci_mode, i, tournament_result, game,
                   handshake, spawned>>

\* Variant: any line ends the wait, and the move is asked for again.
ReadOther_Reask ==
    /\ pc = "await"
    /\ ToMove.child # "silent"
    /\ \E c \in ChildAfter(ToMove.child) :
          /\ SetToMove([ToMove EXCEPT !.child = c])
          /\ last_line' = [NoLine EXCEPT !.kind =
                              IF c = "running" THEN "other" ELSE "eof"]
    /\ pc' = "top"
    /\ UNCHANGED <<tournament, from_uci_mode, i, tournament_result, game,
                   handshake, game_result, spawned>>

\* The inner loop reads a line that does not start with `bestmove`, or
\* read_line returns None because the stream has ended: the loop goes round
\* again and reads the same session.
ReadOther ==
    /\ pc = "await"
    /\ ToMove.child # "silent"
    /\ \E c \in ChildAfter(ToMove.child) :
          /\ SetToMove([ToMove EXCEPT !.child = c])
          /\ last_line' = [NoLine EXCEPT !.kind =
                              IF c = "running" THEN "other" ELSE "eof"]
    /\ UNCHANGED <<tournament, from_uci_mode, pc, i, tournament_result, game,
                   handshake, game_result, spawned>>

\* Variant: the move is made on the board but not recorded.
BestMove_NoPush(g, s, mode) == [g EXCEPT !.board = make_move(@, s, mode)]

\* What the arbiter does to the game with the token after `bestmove`:
\* push it on moves_list, then make the move the library decodes from it.
BestMove(g, s, mode) ==
    [g EXCEPT !.moves_list = Append(@, s),
              !.board = make_move(@, s, mode)]

\* The inner loop reads `bestmove <s>`; s is whatever the engine chose to
\* send.  A panic of the library ends the program.
ReadBestMove ==
    /\ pc = "await"
    /\ ToMove.child = "running"
    /\ \E s \in generate_moves(game.board) \cup IllegalTokens :
          /\ game' = BestMove(game, s, from_uci_mode)
          /\ last_line' = [kind |-> "bestmove", token |-> s,
                           legal |-> s \in generate_moves(game.board)]
          /\ pc' = IF game'.board.pos = "panic" THEN "panicked" ELSE "top"
    /\ UNCHANGED <<tournament, from_uci_mode, i, tournament_result,
                   white_process, black_process, handshake, game_result,
                   spawned>>

\* The inner loop reads a line `bestmove` with nothing after it: nth(1) is
\* None and unwrap panics.
ReadBestMoveNoToken ==
    /\ pc = "await"
    /\ ToMove.child = "running"
    /\ last_line' = [kind |-> "bestmove", token |-> "", legal |-> FALSE]
    /\ pc' = "panicked"
    /\ UNCHANGED <<tournament, from_uci_mode, i, tournament_result, game,
                   white_process, black_process, handshake, game_result,
                   spawned>>

\* The child the thread is reading from falls silent: it stays alive and
\* keeps its pipes open but writes no further line, so the blocking read
\* (read_line, or the read in Engine::new) does not return.
EngineSilent ==
    \/ /\ pc = "await"
       /\ ToMove.child = "running"
       /\ SetToMove([ToMove EXCEPT !.child = "silent"])
       /\ UNCHANGED <<tournament, from_uci_mode, pc, i, tournament_result,
                      game, handshake, last_line, game_result, spawned>>
    \/ /\ pc \in {"hs1", "hs2"}
       /\ handshake.child = "running"
       /\ handshake' = [handshake EXCEPT !.child = "silent"]
       /\ UNCHANGED <<tournament, from_uci_mode, pc, i, tournament_result,
                      game, white_process, black_process, last_line,
                      game_result, spawned>>

(* ---------------------- Tournament::start, the tally ------------------ *)

\* Variant: a game nobody won is counted in total_games only.
Tallied_DrawsDropped(tr, gr, e1, e2) ==
    LET t == [tr EXCEPT !.games_list = Append(@, gr), !.total_games = @ + 1]
    IN  IF winner(gr) = e1.name THEN [t EXCEPT !.engine1_won = @ + 1]
        ELSE IF winner(gr) = e2.name THEN [t EXCEPT !.engine2_won = @ + 1]
        ELSE t

\* The tallies after a game: total_games, and one of the three counters,
\* chosen by comparing winner() with the two names.
Tallied(tr, gr, e1, e2) ==
    LET t == [tr EXCEPT !.games_list = Append(@, gr), !.total_games = @ + 1]
    IN  IF winner(gr) = e1.name THEN [t EXCEPT !.engine1_won = @ + 1]
        ELSE IF winner(gr) = e2.name THEN [t EXCEPT !.engine2_won = @ + 1]
        ELSE [t EXCEPT !.draws = @ + 1]

\* The rest of the loop body after play() returned, and the loop's step.
Tally ==
    /\ pc = "tally"
    /\ tournament_result' = Tallied(tournament_result, game_result,
                                    tournament.engine1, tournament.engine2)
    /\ i' = i + 1
    /\ pc' = "for"
    /\ UNCHANGED <<tournament, from_uci_mode, game, white_process,
                   black_process, handshake, last_line, game_result, spawned>>

Next ==
    \/ Start
    \/ ForExit
    \/ \E k \in {1, 2} : EngineNew(k)
    \/ HandshakeOther
    \/ HandshakeOk
    \/ PlaySpawn
    \/ GameOver
    \/ RequestMove
    \/ ReadOther
    \/ ReadBestMove
    \/ ReadBestMoveNoToken
    \/ EngineSilent
    \/ Tally

Spec == Init /\ [][Next]_vars

\* The steps of the thread that do not wait for a child to write.
ThreadStep ==
    \/ Start
    \/ ForExit
    \/ \E k \in {1, 2} : EngineNew(k)
    \/ PlaySpawn
    \/ GameOver
    \/ RequestMove
    \/ Tally

\* The single thread of control keeps running: a step that does not wait
\* for a child is eventually taken.  Nothing is assumed about what a read
\* returns or whether it returns, which is the child's doing: a child may
\* write lines that are neither `uciok` nor `bestmove` for ever, keep a
\* closed stream open for ever, or stay silent.
FairSpec == Spec /\ WF_vars(ThreadStep)

(* ----------------- EngineProcess::disconnect on its own --------------- *)

\* EngineProcess::disconnect on a child that still reads its stdin.
disconnect(p) == send_command(p, Cmd("quit"))

\* Command histories a session may have when disconnect() is first called.
RECURSIVE Histories(_)
Histories(n) ==
    IF n = 0 THEN {<<>>}
    ELSE LET h == Histories(n - 1)
         IN  h \cup {Append(x, c) : x \in h,
                      c \in {Cmd("uci"), Cmd("position startpos"),
                              Cmd("go infinite")}}

\* A caller holding one session (white_process) in any state a session can
\* be in; everything else is as constructed.
SessionInit ==
    /\ tournament \in {t \in Configs : t.rounds = 1 /\ t.time_control = Infinite
                           /\ t.engine1.name = "A" /\ t.engine2.name = "B"}
    /\ from_uci_mode = "panic"
    /\ pc = "session"
    /\ i = 0
    /\ tournament_result = TournamentResultDefault
    /\ game = NoGame
    /\ white_process \in
           {[spawn_process(1, 0) EXCEPT !.sent = h, !.child = c] :
               h \in Histories(MaxHistory),
               c \in {"running", "stdout_closed", "exited"}}
    /\ black_process = NoProcess
    /\ handshake = NoProcess
    /\ last_line = NoLine
    /\ game_result = NoResult
    /\ spawned = 1

\* Number of `quit` commands written to a session.
NumQuit(p) == Cardinality({k \in 1 .. Len(p.sent) : p.sent[k].cmd = "quit"})

\* One call of disconnect() on the session: send_command("quit\n"), which
\* panics when the child has exited and the pipe is closed.
Disconnect ==
    /\ pc = "session"
    /\ NumQuit(white_process) < MaxDisconnects
    /\ \E c \in ChildAfter(white_process.child) :
          IF c = "exited"
          THEN /\ white_process' = [white_process EXCEPT !.child = c]
               /\ pc' = "panicked"
          ELSE /\ white_process' =
                      disconnect([white_process EXCEPT !.child = c])
               /\ pc' = "session"
    /\ UNCHANGED <<tournament, from_uci_mode, i, tournament_result, game,
                   black_process, handshake, last_line, game_result, spawned>>

\* The strings a caller passes to send_command, which writes any &str: the
\* commands of the protocol, and `other` for every string that is none of
\* them.
CallerCmds ==
    {Cmd(c) : c \in {"uci", "isready", "position startpos", "go infinite",
                     "stop", "quit", "other"}}
        \cup {PositionCommand(<<"e2e4">>), GoCommand(TimePerMove(MoveTimeMs))}

\* A call of the public send_command on the session, which panics when the
\* child has exited and the pipe is closed.
SendCommand ==
    /\ pc = "session"
    /\ Len(white_process.sent) < MaxSent
    /\ \E cmd \in CallerCmds, c \in ChildAfter(white_process.child) :
          IF c = "exited"
          THEN /\ white_process' = [white_process EXCEPT !.child = c]
               /\ pc' = "panicked"
          ELSE /\ white_process' =
                      send_command([white_process EXCEPT !.child = c], cmd)
               /\ pc' = "session"
    /\ UNCHANGED <<tournament, from_uci_mode, i, tournament_result, game,
                   black_process, handshake, last_line, game_result, spawned>>

\* What read_line returns from a child in state c: Some(line) for a line of
\* a running child; None at the end of the stream, and None as well for a
\* read error (a line that is not UTF-8) of a running child.
LinesRead(c) ==
    IF c = "running" THEN {"other", "uciok", "error"} ELSE {"eof"}

\* A call of the public read_line on the session that returns.
ReadLine ==
    /\ pc = "session"
    /\ white_process.child # "silent"
    /\ \E c \in ChildAfter(white_process.child) :
          /\ white_process' = [white_process EXCEPT !.child = c]
          /\ \E l \in LinesRead(c) : last_line' = [NoLine EXCEPT !.kind = l]
    /\ UNCHANGED <<tournament, from_uci_mode, pc, i, tournament_result, game,
                   black_process, handshake, game_result, spawned>>

\* detect_engine_options() up to its loop: send_command("uci\n"), which
\* panics when the child has exited.
DetectWrite ==
    /\ pc = "session"
    /\ Len(white_process.sent) < MaxSent
    /\ \E c \in ChildAfter(white_process.child) :
          IF c = "exited"
          THEN /\ white_process' = [white_process EXCEPT !.child = c]
               /\ pc' = "panicked"
          ELSE /\ white_process' =
                      send_command([white_process EXCEPT !.child = c],
                                   Cmd("uci"))
               /\ pc' = "detect"
    /\ last_line' = NoLine
    /\ UNCHANGED <<tournament, from_uci_mode, i, tournament_result, game,
                   black_process, handshake, game_result, spawned>>

\* One pass of the loop of detect_engine_options(): a line containing
\* `uciok` or a None of read_line (end of stream, read error) leaves the
\* loop and the call returns; any other line is read over, except that an
\* `option` line that breaks off after `name`, `default` or `type`, or whose
\* value does not parse, panics.
DetectRead ==
    /\ pc = "detect"
    /\ white_process.child # "silent"
    /\ \E c \in ChildAfter(white_process.child) :
          /\ white_process' = [white_process EXCEPT !.child = c]
          /\ \E l \in LinesRead(c), bad \in BOOLEAN :
                /\ bad => l = "other"
                /\ last_line' = [NoLine EXCEPT !.kind = l]
                /\ pc' = CASE bad -> "panicked"
                           [] l = "other" -> "detect"
                           [] OTHER -> "session"
    /\ UNCHANGED <<tournament, from_uci_mode, i, tournament_result, game,
                   black_process, handshake, game_result, spawned>>

\* The child detect_engine_options() is reading from falls silent: the
\* blocking read does not return and the call never ends.
DetectSilent ==
    /\ pc = "detect"
    /\ white_process.child = "running"
    /\ white_process' = [white_process EXCEPT !.child = "silent"]
    /\ UNCHANGED <<tournament, from_uci_mode, pc, i, tournament_result, game,
                   black_process, handshake, last_line, game_result, spawned>>

\* What a caller holding a session can do with it, and what the child does
\* to a call in progress.
SessionNext ==
    \/ Disconnect
    \/ SendCommand
    \/ ReadLine
    \/ DetectWrite
    \/ DetectRead
    \/ DetectSilent

SessionSpec == SessionInit /\ [][SessionNext]_vars

(* ------------------------------ the claims ---------------------------- *)

InGame == pc \in {"top", "await", "tally"}

Max(a, b) == IF a >= b THEN a ELSE b

TallySum ==
    tournament_result.engine1_won + tournament_result.engine2_won
        + tournament_result.draws

\* C1, as stated: after every round and in the returned result, engine1_won
\* + engine2_won + draws = total_games and total_games <= rounds.
C1_TalliesWithinRounds ==
    (pc = "done" \/ (pc = "for" /\ i > 0)) =>
        /\ TallySum = tournament_result.total_games
        /\ tournament_result.total_games <= tournament.rounds

\* C1, amended: after every round and in the returned result, engine1_won +
\* engine2_won + draws = total_games, and total_games <= rounds when rounds
\* is not negative; a negative rounds plays no round, and total_games = 0.
C1_TalliesWithinRoundsAmended ==
    (pc = "done" \/ (pc = "for" /\ i > 0)) =>
        /\ TallySum = tournament_result.total_games
        /\ tournament_result.total_games <= Max(tournament.rounds, 0)
        /\ tournament.rounds < 0 => tournament_result.total_games = 0

C1_Witness ==
    /\ pc = "done"
    /\ tournament_result.total_games = 2
    /\ tournament_result.engine1_won = 1
    /\ tournament_result.draws = 1

\* C2, as stated: in round i engine1 is white and engine2 black iff i is
\* even, in odd rounds the reverse, and games_list[i].white is engine1's
\* name iff i is even (games_list is 1-indexed here: round r - 1).
C2_ColorRotation ==
    /\ InGame =>
          /\ (i % 2 = 0) <=>
                (game.white = tournament.engine1 /\ game.black = tournament.engine2)
          /\ (i % 2 = 1) <=>
                (game.white = tournament.engine2 /\ game.black = tournament.engine1)
    /\ \A r \in 1 .. Len(tournament_result.games_list) :
          (tournament_result.games_list[r].white = tournament.engine1.name)
              <=> ((r - 1) % 2 = 0)

\* C2, amended: in round i engine1 is white and engine2 black iff i is even,
\* in odd rounds the reverse; games_list[i].white is engine1's name when i
\* is even and engine2's name when i is odd (so it is engine1's name iff i
\* is even whenever the two names differ).
C2_ColorRotationAmended ==
    /\ InGame =>
          /\ (i % 2 = 0) <=>
                (game.white = tournament.engine1 /\ game.black = tournament.engine2)
          /\ (i % 2 = 1) <=>
                (game.white = tournament.engine2 /\ game.black = tournament.engine1)
    /\ \A r \in 1 .. Len(tournament_result.games_list) :
          LET g == tournament_result.games_list[r]
          IN  IF (r - 1) % 2 = 0
              THEN g.white = tournament.engine1.name
                   /\ g.black = tournament.engine2.name
              ELSE g.white = tournament.engine2.name
                   /\ g.black = tournament.engine1.name

C2_Witness ==
    /\ Len(tournament_result.games_list) = 2
    /\ tournament.engine1.name = "A"
    /\ tournament.engine2.name = "B"
    /\ tournament_result.games_list[1].white = "A"
    /\ tournament_result.games_list[2].white = "B"

\* C3: every move in moves_list was a member of generate_moves() of the
\* position before it; no engine reply puts a string that is not a legal
\* move of the current position into moves_list.
C3_MovesValidated ==
    pc # "panicked" =>
        \A k \in 1 .. Len(game.moves_list) :
            game.moves_list[k] \in
                generate_moves(Replay(SubSeq(game.moves_list, 1, k - 1),
                                      from_uci_mode))

\* C4: between move requests and in the returned GameResult, replaying
\* moves_list from the starting position with the library's make_move gives
\* exactly the arbiter's board; the result carries that same list.
C4_ReplayReproducesBoard ==
    InGame =>
        /\ game.board = Replay(game.moves_list, from_uci_mode)
        /\ pc = "tally" => game_result.moves_list = game.moves_list

C4_Witness ==
    /\ pc = "tally"
    /\ Len(game_result.moves_list) = 3
    /\ game.board.pos = "mate_b"

\* C5: with generate_moves() empty at the top of the arbiter loop, play()
\* returns in that very step without a command to either engine; the result
\* is -1 when white is to move and in check, 1 when black is to move and in
\* check, and 0 when the side to move is not in check.
C5_NoMovesEndsGame ==
    [][(pc = "top" /\ generate_moves(game.board) = {}) =>
         /\ pc' = "tally"
         /\ UNCHANGED <<white_process, black_process, game>>
         /\ game_result'.result =
               (CASE game.board.pos = "mate_w" /\ game.board.turn = "WHITE" -> -1
                  [] game.board.pos = "mate_b" /\ game.board.turn = "BLACK" -> 1
                  [] OTHER -> 0)]_vars

C5_Witness ==
    /\ pc = "tally"
    /\ game.board.pos = "stale_w"
    /\ game_result.result = 0
    /\ Len(tournament_result.games_list) = 1
    /\ tournament_result.games_list[1].result = 1

\* Whether `quit` was written to a session.
QuitSent(p) == \E k \in 1 .. Len(p.sent) : p.sent[k].cmd = "quit"

\* C6: whenever play() has returned, disconnect() was called on both
\* sessions of the game: `quit` was written to the white and to the black
\* child.
C6_DisconnectOnReturn ==
    pc = "tally" => QuitSent(white_process) /\ QuitSent(black_process)

\* The result of a forfeit of the side to move.
ForfeitOf(turn) == IF turn = "WHITE" THEN -1 ELSE 1

\* C7: when the stdout of the engine to move ends after a `go` and before a
\* `bestmove`, play() eventually returns with the opposite side as winner.
C7_EofForfeits ==
    (pc = "await" /\ last_line.kind = "eof")
        ~> (pc = "tally" /\ game_result.result = ForfeitOf(game.board.turn))

\* C8: when the token after `bestmove` is not in generate_moves() of the
\* current position although legal moves exist, the game ends in that step
\* with the opposite side as winner and the token is not applied.
C8_IllegalMoveForfeits ==
    [][(pc = "await" /\ last_line'.kind = "bestmove" /\ last_line'.token # ""
            /\ ~last_line'.legal) =>
         /\ pc' = "tally"
         /\ game_result'.result = ForfeitOf(game.board.turn)
         /\ game'.board = game.board]_vars

\* C9: a handshake whose child has exited or closed its stdout without a
\* `uciok` line stops reading; it does not read a dead child forever.
C9_HandshakeStopsOnEof ==
    (pc \in {"hs1", "hs2"} /\ handshake.child # "running")
        ~> (pc \notin {"hs1", "hs2"})

\* The rounds (1-indexed in games_list) won by engine1, by engine2, drawn.
WonBy1(gl) ==
    {r \in 1 .. Len(gl) : gl[r].result = (IF (r - 1) % 2 = 0 THEN 1 ELSE -1)}
WonBy2(gl) ==
    {r \in 1 .. Len(gl) : gl[r].result = (IF (r - 1) % 2 = 0 THEN -1 ELSE 1)}
Drawn(gl) == {r \in 1 .. Len(gl) : gl[r].result = 0}

\* C10: for every pair of descriptors, engine1_won counts exactly the games
\* engine1 won (white in even rounds, black in odd rounds), engine2_won
\* exactly those engine2 won, and draws exactly the drawn games.
C10_TallyCreditsWinner ==
    LET gl == tournament_result.games_list
    IN  /\ tournament_result.engine1_won = Cardinality(WonBy1(gl))
        /\ tournament_result.engine2_won = Cardinality(WonBy2(gl))
        /\ tournament_result.draws = Cardinality(Drawn(gl))

\* The model stops following a game that is still going on at PlyCap.
PlyCapReached ==
    /\ pc = "top"
    /\ generate_moves(game.board) # {}
    /\ Len(game.moves_list) = PlyCap

\* The program aborted because an executable could not be launched: the
\* path checks or the spawn in Engine::new (no handshake child), or a spawn
\* in play() (both handshakes of the round done, a side left unbound).  A
\* failure of the host, not something an engine did: a panic on a write to
\* a child that was launched is not one of these.
LaunchFailed ==
    /\ pc = "panicked"
    /\ \/ handshake.child = "none"
       \/ /\ QuitSent(handshake)
          /\ \/ white_process.child = "none"
             \/ black_process.child = "none"

\* C11: whatever the engines do, Tournament::start eventually returns a
\* TournamentResult (the rounds started being recorded in games_list).
C11_StartReturns ==
    <>(\/ pc = "done" /\ Len(tournament_result.games_list) = i
       \/ PlyCapReached
       \/ LaunchFailed)

\* The step by which play() binds its two sessions.
SessionsBound == pc = "game" /\ pc' = "top"

\* C12: every call of play() spawns two new sessions, one per side, never
\* used before (their ids exceed every id spawned so far) and with nothing
\* written to them; and whenever a command is written to a session, that
\* session is the same one as before the write and was spawned in the
\* current round.
C12_FreshSessions ==
    [][/\ SessionsBound =>
             /\ white_process'.child # "none"
             /\ black_process'.child # "none"
             /\ white_process'.id # black_process'.id
       /\ pc = "game" =>
             /\ white_process'.sent = <<>> /\ black_process'.sent = <<>>
             /\ white_process'.child # "none" =>
                   white_process'.id > spawned /\ white_process'.round = i
             /\ black_process'.child # "none" =>
                   black_process'.id > spawned /\ black_process'.round = i
       /\ (pc # "game" /\ white_process'.sent # white_process.sent) =>
             /\ white_process'.id = white_process.id
             /\ white_process.round = i
       /\ (pc # "game" /\ black_process'.sent # black_process.sent) =>
             /\ black_process'.id = black_process.id
             /\ black_process.round = i]_vars

C12_Witness ==
    /\ i = 1
    /\ pc = "await"
    /\ Len(game.moves_list) = 1
    /\ white_process.round = 1 /\ black_process.round = 1
    /\ Len(white_process.sent) = 2 /\ Len(black_process.sent) = 2
    /\ white_process.id = 7 /\ black_process.id = 8

\* C13: at every move request the position command written to the engine to
\* move is `position startpos` when no move has been applied, and otherwise
\* `position startpos moves m1 ... mk` with exactly the moves applied to the
\* board so far, in order; the `go` follows it.
C13_PositionCommand ==
    pc = "await" =>
        LET sent == ToMove.sent
            n == Len(sent)
        IN  /\ n >= 2
            /\ sent[n].cmd \in {"go infinite", "go movetime"}
            /\ sent[n - 1].moves = game.moves_list
            /\ sent[n - 1].cmd = (IF game.moves_list = <<>>
                                  THEN "position startpos"
                                  ELSE "position startpos moves")
            /\ Replay(sent[n - 1].moves, from_uci_mode) = game.board

C13_Witness ==
    /\ pc = "await"
    /\ Len(game.moves_list) = 2
    /\ white_process.sent[3] =
           [cmd |-> "position startpos moves", moves |-> game.moves_list,
            ms |-> 0]
    /\ white_process.sent[1] =
           [cmd |-> "position startpos", moves |-> <<>>, ms |-> 0]

\* How many times the current position (placement, side to move) has
\* occurred in the game so far, the current occurrence included.
Occurrences(g, mode) ==
    Cardinality({k \in 0 .. Len(g.moves_list) :
                    Replay(SubSeq(g.moves_list, 1, k), mode) = g.board})

\* C14: once the same position has been reached for the third time the
\* arbiter ends the game as a draw; it never asks an engine for a move in
\* such a position.
C14_ThreefoldDraw ==
    /\ pc = "await" => Occurrences(game, from_uci_mode) < 3
    /\ (pc = "tally" /\ Occurrences(game, from_uci_mode) >= 3) =>
           game_result.result = 0

\* The session of the side to move, after the step.
ToMoveNext ==
    IF game.board.turn = "WHITE" THEN white_process' ELSE black_process'

\* C15: an attempt to drive a session whose child has exited returns an
\* error at once: the program does not abort and no command is written.
C15_CrashedSessionNotDriven ==
    [][(pc = "top" /\ pc' # "top" /\ ToMoveNext.child = "exited") =>
         /\ pc' # "panicked"
         /\ ToMoveNext.sent = ToMove.sent]_vars

\* C16: under TimePerMove, an engine that stays alive but silent after
\* `go movetime` does not block play() forever: the arbiter stops waiting
\* and the engine forfeits.
C16_SilentEngineForfeits ==
    (pc = "await" /\ game.time_control.kind = "TimePerMove"
        /\ ToMove.child = "silent")
        ~> (pc = "tally" /\ game_result.result = ForfeitOf(game.board.turn))

\* Every `go infinite` in a session's log that is not its last command is
\* directly followed by `stop`.
StopFollows(p) ==
    \A k \in 1 .. Len(p.sent) - 1 :
        p.sent[k].cmd = "go infinite" => p.sent[k + 1].cmd = "stop"

\* C17: under Infinite, every `go infinite` sent to a session is followed
\* by a `stop` to that session before any further `position` or `go`.
C17_StopAfterGoInfinite ==
    StopFollows(white_process) /\ StopFollows(black_process)

\* C18: disconnect() is idempotent: a call on a session that was already
\* disconnected writes no further `quit` and does not fail, also when the
\* child has exited.
C18_DisconnectIdempotent ==
    [][(Disconnect /\ QuitSent(white_process)) =>
         /\ NumQuit(white_process') = NumQuit(white_process)
         /\ pc' = "session"]_vars

\* Number of `go` commands written to a session.
NumGo(p) ==
    Cardinality({k \in 1 .. Len(p.sent) :
                    p.sent[k].cmd \in {"go infinite", "go movetime"}})

\* C19: within a game at most one `go` is outstanding (the `go`s sent are
\* the bestmoves consumed, plus one while the arbiter waits); the requests
\* alternate white, black, white, ... starting with white; the session that
\* is written to is the one of the board's side to move; and the board
\* changes only when a bestmove is consumed (or a new game is set up),
\* never in a step that writes to a session.
C19_AlternateSessions ==
    /\ [](InGame =>
            LET n == Len(game.moves_list) + (IF pc = "await" THEN 1 ELSE 0)
            IN  /\ NumGo(white_process) + NumGo(black_process) = n
                /\ NumGo(white_process) = (n + 1) \div 2
                /\ NumGo(black_process) = n \div 2
                /\ pc = "await" =>
                      ToMove.sent[Len(ToMove.sent)].cmd
                          \in {"go infinite", "go movetime"})
    /\ [][/\ (pc # "game" /\ white_process'.sent # white_process.sent) =>
                (pc = "top" /\ game.board.turn = "WHITE" /\ game' = game
                    /\ black_process' = black_process)
          /\ (pc # "game" /\ black_process'.sent # black_process.sent) =>
                (pc = "top" /\ game.board.turn = "BLACK" /\ game' = game
                    /\ white_process' = white_process)
          /\ (game'.board # game.board) =>
                \/ pc = "game"
                \/ /\ pc = "await"
                   /\ last_line'.kind = "bestmove"
                   /\ white_process' = white_process
                   /\ black_process' = black_process]_vars

C19_Witness ==
    /\ pc = "await"
    /\ Len(game.moves_list) = 2
    /\ NumGo(white_process) = 2
    /\ NumGo(black_process) = 1

\* C20: a line that does not start with `bestmove`, read while the arbiter
\* waits for a move, changes neither the board, the side to move nor
\* moves_list, writes no command to either session, and leaves the arbiter
\* waiting on the same session.
C20_OtherLinesDiscarded ==
    [][(pc = "await" /\ last_line'.kind = "other") =>
         /\ game' = game
         /\ white_process'.sent = white_process.sent
         /\ black_process'.sent = black_process.sent
         /\ pc' = "await"]_vars

C20_Witness ==
    /\ pc = "await"
    /\ last_line.kind = "other"
    /\ Len(game.moves_list) = 1

\* The commands that drive a session: `position ...` and `go ...`.
DriveCmds ==
    {"position startpos", "position startpos moves",
     "go infinite", "go movetime"}

\* Every driving command in the session's log has a `uci` before it.
UciFirst(p) ==
    \A k \in 1 .. Len(p.sent) :
        p.sent[k].cmd \in DriveCmds =>
            \E j \in 1 .. k - 1 : p.sent[j].cmd = "uci"

\* C21: every session spawned by play() is sent `uci` (and answers with
\* uciok) before the first `position` or `go` is sent to that session.
C21_HandshakeBeforeDrive ==
    InGame => UciFirst(white_process) /\ UciFirst(black_process)

\* C22: play() returns only from the top of the arbiter loop with no legal
\* move for the side to move; the result is 1 or -1 only if that side is in
\* check, carries the names of the game's engines and the arbiter's
\* moves_list; and no step taken while waiting for an engine's reply
\* returns from play().
C22_ReturnsOnlyOnNoMoves ==
    [][/\ (pc # "tally" /\ pc' = "tally") =>
            /\ pc = "top"
            /\ generate_moves(game.board) = {}
            /\ game' = game
            /\ game_result'.result \in {-1, 0, 1}
            /\ game_result'.result # 0 =>
                   is_king_in_check(game.board, game.board.turn)
            /\ game_result'.white = game.white.name
            /\ game_result'.black = game.black.name
            /\ game_result'.moves_list = game.moves_list
       /\ pc = "await" =>
            /\ pc' \in {"await", "top", "panicked"}
            /\ game_result' = game_result]_vars

C22_Witness ==
    /\ pc = "tally"
    /\ game.board.pos = "mate_b"
    /\ game_result.result = 1
    /\ game_result.moves_list = <<"e2e4", "e7e5", "d1h5">>
    /\ game_result.white = game.white.name
    /\ game_result.black = game.black.name

====
